---- MODULE Spec2Model ----
(***************************************************************************)
(* Model of the Syllable Shopify proxy service (app.py, shopify.py).       *)
(*                                                                         *)
(* One request is handled at a time (the handlers share no state).  A      *)
(* handler runs up to its first outbound POST, blocks, and continues when  *)
(* the upstream answers; pc is the handler's position.  Python strings are *)
(* TLA+ strings, Python None is the value None below, and an f-string is   *)
(* the tuple of its literal pieces and formatted values.                   *)
(***************************************************************************)
EXTENDS Integers, Sequences, FiniteSets, TLC

\* Python None (absent header / absent query parameter / JSON null).
None == "<None>"

\* Python truthiness of an Optional[str]: None and "" are falsy.
Truthy(x) == x # None /\ x # ""

\* str(x) as an f-string placeholder formats it: None prints as "None".
Fmt(x) == IF x = None THEN "None" ELSE x

---------------------------------------------------------------------------
\* Bounds of the model.
MaxOrders == 2      \* longest upstream order list
MaxProducts == 2    \* longest upstream product edge list

\* Program constants (shopify.py).
NUM_ORDERS_TO_RETURN == 50
NUM_PRODUCTS_TO_RETURN == 20
SHOPIFY_API_VERSION == "2025-04"

---------------------------------------------------------------------------
\* Inputs of a request.
Tokens == {None, "", "shpat_1"}
StoreNames == {None, "", "acme"}
ApiVersions == {None, "2024-10"}
OrderNumbers == {None, "", "1001"}
ConfirmationNumbers == {None, "", "C1", "C2"}
Emails == {None, "", "a@x.io"}
ProductIds == {None, "", "42"}
ProductNames == {None, "", "polo"}
ProductHandles == {None, "", "polo-shirt-1", "hat"}

\* the query parameters of a request; a parameter a handler never reads is None
NoArgs ==
    [store_name |-> None, api_version |-> None, order_number |-> None,
     confirmation_number |-> None, email |-> None, product_id |-> None,
     product_name |-> None, product_handle |-> None]

---------------------------------------------------------------------------
\* Upstream data.  An order node carries its id and its (nullable)
\* confirmationNumber; a customer node its id; a product edge its node's id.
OrderIds == {"o1", "o2"}
OrderConfirmationNumbers == {None, "C1", "C2"}
OrderRecords == [id : OrderIds, confirmationNumber : OrderConfirmationNumbers]
CustomerRecords == [id : {"cust1", "cust2"}]
ProductRecords == [id : {"p1", "p2"}]

SeqsUpTo(S, n) == UNION {[1..k -> S] : k \in 0..n}

NoOrder == [id |-> None, confirmationNumber |-> None]

\* What one outbound POST can come back with:
\*   ConnectionError   requests.post raises (transport failure)
\*   HTTPError         raise_for_status raises (non-2xx status)
\*   JSONDecodeError   response.json() raises (body is not JSON); the
\*                     exception class derives from ValueError
\*   null_on_path      a JSON body with null where an object is expected
\*                     ({"data": null}): .get on None raises AttributeError
\*   key_missing       a JSON body without the path ({} or {"errors": ..})
\*   ok                a JSON body with the list at the end of the path
ErrorKinds == {"ConnectionError", "HTTPError", "JSONDecodeError", "null_on_path"}
Reply(kind, nodes) == [kind |-> kind, nodes |-> nodes]
Replies(Records, n) ==
    {Reply(k, <<>>) : k \in ErrorKinds \cup {"key_missing"}}
        \cup {Reply("ok", l) : l \in SeqsUpTo(Records, n)}
OrderReplies == Replies(OrderRecords, MaxOrders)
CustomerReplies == Replies(CustomerRecords, 1)
ProductReplies == Replies(ProductRecords, MaxProducts)

\* str(e) of the exception a failed POST raises
CauseText(kind) ==
    CASE kind = "ConnectionError" -> "Connection refused"
      [] kind = "HTTPError" -> "500 Server Error"
      [] kind = "JSONDecodeError" -> "Expecting value: line 1 column 1 (char 0)"
      [] OTHER -> "'NoneType' object has no attribute 'get'"

\* the exception class hierarchy: json's JSONDecodeError is a ValueError
ExceptionClass(kind) ==
    IF kind = "null_on_path" THEN "AttributeError" ELSE kind
IsValueError(class) == class \in {"ValueError", "JSONDecodeError"}

---------------------------------------------------------------------------
\* Results of the Query Layer: a value, or a raised exception.
NoExc == [class |-> "", msg |-> <<>>]
Return(v) == [raised |-> FALSE, exc |-> NoExc, value |-> v]
Raise(class, msg) == [raised |-> TRUE, exc |-> [class |-> class, msg |-> msg], value |-> <<>>]

\* the endpoint URL every Query Layer function builds
GraphqlUrl(store_name, api_verison) ==
    <<"https://", Fmt(store_name), ".myshopify.com/admin/api/",
      IF Truthy(api_verison) THEN api_verison ELSE SHOPIFY_API_VERSION,
      "/graphql.json">>

\* one outbound POST as the upstream sees it
Call(fn, store_name, token, api_verison, variables) ==
    [fn |-> fn, url |-> GraphqlUrl(store_name, api_verison),
     token |-> token, variables |-> variables]

\* (variant) a bare `raise`: the cause leaves the Query Layer as it is
ReraiseBare(prefix, e) == Raise(e.class, e.msg)

\* except Exception as e: raise Exception(f"<prefix>{e}"): whatever was
\* raised inside the try leaves the Query Layer as a plain Exception
Reraise(prefix, e) == Raise("Exception", <<prefix>> \o e.msg)

\* (variant) without response.raise_for_status(): the body of a non-2xx
\* answer is read like any other and unwraps to the default []
UnwrapNoRaiseForStatus(prefix, reply) ==
    IF reply.kind \in ErrorKinds \ {"HTTPError"}
    THEN Reraise(prefix, [class |-> ExceptionClass(reply.kind),
                          msg |-> <<CauseText(reply.kind)>>])
    ELSE Return(reply.nodes)

\* the try block around the POST: the exception of a failed POST, or the
\* unwrapped list (.get(key, []) gives [] when the path is missing)
Unwrap(prefix, reply) ==
    IF reply.kind \in ErrorKinds
    THEN Reraise(prefix, [class |-> ExceptionClass(reply.kind),
                          msg |-> <<CauseText(reply.kind)>>])
    ELSE Return(reply.nodes)

\* GetOrders: the search filter, or the ValueError of the validation
GetOrdersQuery(order_number, email, confirmation_number) ==
    IF order_number # None
    THEN Return(<<"name:", order_number>>)
    ELSE IF Truthy(email) /\ Truthy(confirmation_number)
    THEN Return(<<"email:", email>>)
    ELSE Raise("ValueError",
               <<"Either order_number or both email and confirmation number must be provided.">>)

GetOrdersResult(reply) == Unwrap("Shopify order search error: ", reply)

---------------------------------------------------------------------------
\* Response bodies: jsonify({field: value}); the value is a string (the
\* tuple of its pieces), an order object or a list of product edges.
Str(field, s) == [field |-> field, tag |-> "str", str |-> s, obj |-> NoOrder, list |-> <<>>]
Obj(field, o) == [field |-> field, tag |-> "obj", str |-> <<>>, obj |-> o, list |-> <<>>]
List(field, l) == [field |-> field, tag |-> "list", str |-> <<>>, obj |-> NoOrder, list |-> l]
Response(status, body) == [status |-> status, body |-> body]
NoResponse == Response(0, Str("", <<>>))

\* (variant) the header is never looked at
MissingTokenUnchecked(shopify_access_token) == FALSE

MissingToken(shopify_access_token) == ~Truthy(shopify_access_token)
MissingTokenResponse ==
    Response(400, Str("error", <<"Missing or invalid Shopify token in request headers">>))

\* the except clauses of the three protected handlers: ValueError first
HandleException(exc, generic) ==
    IF IsValueError(exc.class)
    THEN Response(400, Str("error", <<"Invalid parameter provided. ">> \o exc.msg))
    ELSE Response(500, Str("error", <<generic>>))

OrdersError == "An error occurred while retrieving orders."
ProductsError == "An error occurred while retrieving products."

---------------------------------------------------------------------------
\* (variant) `if email is None`: an empty email goes on to the POST
GetCustomerIDQueryIsNone(email) ==
    IF email = None
    THEN Raise("ValueError", <<"Customer email must be provided.">>)
    ELSE Return(<<"email:", email>>)

\* GetCustomerID: the search filter, or the ValueError of the validation
GetCustomerIDQuery(email) ==
    IF ~Truthy(email)
    THEN Raise("ValueError", <<"Customer email must be provided.">>)
    ELSE Return(<<"email:", email>>)

\* customers[0].get('id') if customers else None
GetCustomerIDResult(reply) ==
    LET r == Unwrap("Shopify customer search error: ", reply)
    IN  IF r.raised THEN r
        ELSE Return(IF Len(r.value) > 0 THEN r.value[1].id ELSE None)

\* GetOrdersForCustomerId: its validation (the message is the one of GetOrders)
GetOrdersForCustomerIdQuery(customer_id) ==
    IF ~Truthy(customer_id)
    THEN Raise("ValueError",
               <<"Either order_number or both email and confirmation number must be provided.">>)
    ELSE Return(customer_id)

GetOrdersForCustomerIdResult(reply) == Unwrap("Shopify order search error: ", reply)

\* GetProducts: the search mode by priority product_id > product_name > description
GetProductsQuery(product_id, product_name, description) ==
    IF product_id # None
    THEN Return(<<"id:", product_id>>)
    ELSE IF product_name # None
    THEN Return(<<"title:*", product_name, "*">>)
    ELSE IF description # None
    THEN Return(<<"description:*", description, "*">>)
    ELSE Raise("ValueError", <<"product_name or product_id must be provided.">>)

GetProductsResult(reply) == Unwrap("Shopify product search error: ", reply)

---------------------------------------------------------------------------
VARIABLES
    pc,          \* "idle", the Query Layer call whose POST is in flight, or "done"
    endpoint,    \* the handler of the current request
    token,       \* its X-Shopify-Access-Token header
    args,        \* its query parameters
    calls,       \* the outbound POSTs made for it, in order
    replies,     \* what the upstream answered to them
    customer_id, \* local of shopify_order_by_confirmation_number_and_email
    products,    \* local of get_shopify_products
    response,    \* the handler's return value
    seen         \* an earlier get-product-url exchange, kept for comparison

vars == <<pc, endpoint, token, args, calls, replies, customer_id, products, response, seen>>

NoSeen == [token |-> None, store_name |-> None, product_handle |-> None, response |-> NoResponse]

Init ==
    /\ pc = "idle"
    /\ endpoint = "none"
    /\ token = None
    /\ args = NoArgs
    /\ calls = <<>>
    /\ replies = <<>>
    /\ customer_id = None
    /\ products = <<>>
    /\ response = NoResponse
    /\ seen = NoSeen

\* a request starts with nothing carried over from the previous one
Begin(name, tok, a) ==
    /\ pc = "idle"
    /\ endpoint' = name
    /\ token' = tok
    /\ args' = a
    /\ UNCHANGED <<replies, customer_id, products>>

\* the handler returns without (further) outbound call
Respond(r) ==
    /\ pc' = "done"
    /\ response' = r
    /\ UNCHANGED calls

\* the handler blocks in requests.post
Post(at, call) ==
    /\ pc' = at
    /\ calls' = Append(calls, call)
    /\ UNCHANGED response

\* the request context is dropped once the response is sent
teardown_request ==
    /\ pc = "done"
    /\ pc' = "idle"
    /\ endpoint' = "none"
    /\ token' = None
    /\ args' = NoArgs
    /\ calls' = <<>>
    /\ replies' = <<>>
    /\ customer_id' = None
    /\ products' = <<>>
    /\ response' = NoResponse
    /\ UNCHANGED seen

---------------------------------------------------------------------------
\* GET /
health_check ==
    /\ Begin("health_check", None, NoArgs)
    /\ Respond(Response(200, Str("", <<"Ok.">>)))
    /\ UNCHANGED seen

---------------------------------------------------------------------------
\* (variant) orders[-1]: the oldest order instead of the most recent one
OrderByNumberBodyLast(order_number, orders) ==
    IF Len(orders) > 0
    THEN Obj("order", orders[Len(orders)])
    ELSE Str("order", <<"No orders with order number ", Fmt(order_number), " found.">>)

\* GET /shopify/order-by-number
OrderByNumberBody(order_number, orders) ==
    IF Len(orders) > 0
    THEN Obj("order", orders[1])
    ELSE Str("order", <<"No orders with order number ", Fmt(order_number), " found.">>)

\* ... up to the POST of GetOrders
shopify_order_by_number ==
    \E tok \in Tokens, s \in StoreNames, v \in ApiVersions, n \in OrderNumbers :
        LET a == [NoArgs EXCEPT !.store_name = s, !.api_version = v, !.order_number = n]
            q == GetOrdersQuery(n, None, None)
        IN  /\ Begin("order_by_number", tok, a)
            /\ IF MissingToken(tok)
               THEN Respond(MissingTokenResponse)
               ELSE IF q.raised
               THEN Respond(HandleException(q.exc, OrdersError))
               ELSE Post("GetOrders",
                         Call("GetOrders", s, tok, v,
                              [query |-> q.value, num_orders |-> NUM_ORDERS_TO_RETURN]))
            /\ UNCHANGED seen

\* ... and from the upstream's answer to the response
shopify_order_by_number_return ==
    /\ pc = "GetOrders"
    /\ \E reply \in OrderReplies :
        LET r == GetOrdersResult(reply)
        IN  /\ replies' = Append(replies, reply)
            /\ IF r.raised
               THEN Respond(HandleException(r.exc, OrdersError))
               ELSE Respond(Response(200, OrderByNumberBody(args.order_number, r.value)))
    /\ UNCHANGED <<endpoint, token, args, customer_id, products, seen>>

---------------------------------------------------------------------------
\* (variant) customer-not-found answered as a soft 200
CustomerNotFoundResponseSoft(email) ==
    Response(200, Str("Error", <<"Invalid Email. Customer not found with email ", Fmt(email)>>))

\* GET /shopify/order-by-confirmation-number-and-email
CustomerNotFoundResponse(email) ==
    Response(400, Str("Error", <<"Invalid Email. Customer not found with email ", Fmt(email)>>))

\* (variant) the loop without its break: the last match wins
RECURSIVE MatchIndexNoBreak(_, _, _)
MatchIndexNoBreak(orders, confirmation_number, i) ==
    IF i > Len(orders) THEN 0
    ELSE LET later == MatchIndexNoBreak(orders, confirmation_number, i + 1)
         IN  IF later > 0 THEN later
             ELSE IF orders[i].confirmationNumber = confirmation_number THEN i ELSE 0

\* for o in orders: if o['confirmationNumber'] == confirmation_number: break
RECURSIVE MatchIndex(_, _, _)
MatchIndex(orders, confirmation_number, i) ==
    IF i > Len(orders) THEN 0
    ELSE IF orders[i].confirmationNumber = confirmation_number THEN i
    ELSE MatchIndex(orders, confirmation_number, i + 1)

OrderByConfirmationBody(email, confirmation_number, orders) ==
    LET i == MatchIndex(orders, confirmation_number, 1)
    IN  IF i > 0
        THEN Obj("order", orders[i])
        ELSE Str("order", <<"No orders for ", Fmt(email), " with confirmation number ",
                            Fmt(confirmation_number), " found.">>)

\* ... up to the POST of GetCustomerID
shopify_order_by_confirmation_number_and_email ==
    \E tok \in Tokens, s \in StoreNames, v \in ApiVersions,
       c \in ConfirmationNumbers, e \in Emails :
        LET a == [NoArgs EXCEPT !.store_name = s, !.api_version = v,
                                !.confirmation_number = c, !.email = e]
            q == GetCustomerIDQuery(e)
        IN  /\ Begin("order_by_confirmation_number_and_email", tok, a)
            /\ IF MissingToken(tok)
               THEN Respond(MissingTokenResponse)
               ELSE IF q.raised
               THEN Respond(HandleException(q.exc, OrdersError))
               ELSE Post("GetCustomerID",
                         Call("GetCustomerID", s, tok, v, [query |-> q.value]))
            /\ UNCHANGED seen

\* ... from the customer lookup's answer to the POST of GetOrdersForCustomerId
customer_id_return ==
    /\ pc = "GetCustomerID"
    /\ \E reply \in CustomerReplies :
        LET r == GetCustomerIDResult(reply)
            q == GetOrdersForCustomerIdQuery(r.value)
        IN  /\ replies' = Append(replies, reply)
            /\ IF r.raised
               THEN Respond(HandleException(r.exc, OrdersError)) /\ UNCHANGED customer_id
               ELSE /\ customer_id' = r.value
                    /\ IF ~Truthy(r.value)
                       THEN Respond(CustomerNotFoundResponse(args.email))
                       ELSE IF q.raised
                       THEN Respond(HandleException(q.exc, OrdersError))
                       ELSE Post("GetOrdersForCustomerId",
                                 Call("GetOrdersForCustomerId", args.store_name, token,
                                      args.api_version,
                                      [customer_id |-> q.value,
                                       num_orders |-> NUM_ORDERS_TO_RETURN]))
    /\ UNCHANGED <<endpoint, token, args, products, seen>>

\* ... and from the customer's orders to the response
orders_for_customer_id_return ==
    /\ pc = "GetOrdersForCustomerId"
    /\ \E reply \in OrderReplies :
        LET r == GetOrdersForCustomerIdResult(reply)
        IN  /\ replies' = Append(replies, reply)
            /\ IF r.raised
               THEN Respond(HandleException(r.exc, OrdersError))
               ELSE Respond(Response(200,
                        OrderByConfirmationBody(args.email, args.confirmation_number, r.value)))
    /\ UNCHANGED <<endpoint, token, args, customer_id, products, seen>>

---------------------------------------------------------------------------
\* GET /shopify/products
\* if not products and product_name: the description search is made
SearchDescription(found, product_name) ==
    Len(found) = 0 /\ Truthy(product_name)

\* (variant) the empty list is sent as it is
ProductsBodyAsIs(found) == List("products", found)

ProductsBody(found) ==
    IF Len(found) <= 0
    THEN Str("products", <<"No products found.">>)
    ELSE List("products", found)

\* ... up to the POST of the first GetProducts
get_shopify_products ==
    \E tok \in Tokens, s \in StoreNames, v \in ApiVersions,
       i \in ProductIds, n \in ProductNames :
        LET a == [NoArgs EXCEPT !.store_name = s, !.api_version = v,
                                !.product_id = i, !.product_name = n]
            q == GetProductsQuery(i, n, None)
        IN  /\ Begin("products", tok, a)
            /\ IF MissingToken(tok)
               THEN Respond(MissingTokenResponse)
               ELSE IF q.raised
               THEN Respond(HandleException(q.exc, ProductsError))
               ELSE Post("GetProducts",
                         Call("GetProducts", s, tok, v,
                              [query |-> q.value, num_products |-> NUM_PRODUCTS_TO_RETURN]))
            /\ UNCHANGED seen

\* ... from the first search's answer to the response or the second POST
get_products_return ==
    /\ pc = "GetProducts"
    /\ \E reply \in ProductReplies :
        LET r == GetProductsResult(reply)
            q == GetProductsQuery(None, None, args.product_name)
        IN  /\ replies' = Append(replies, reply)
            /\ IF r.raised
               THEN Respond(HandleException(r.exc, ProductsError)) /\ UNCHANGED products
               ELSE /\ products' = r.value
                    /\ IF SearchDescription(r.value, args.product_name)
                       THEN IF q.raised
                            THEN Respond(HandleException(q.exc, ProductsError))
                            ELSE Post("GetProducts_description",
                                      Call("GetProducts", args.store_name, token,
                                           args.api_version,
                                           [query |-> q.value,
                                            num_products |-> NUM_PRODUCTS_TO_RETURN]))
                       ELSE Respond(Response(200, ProductsBody(r.value)))
    /\ UNCHANGED <<endpoint, token, args, customer_id, seen>>

\* ... and from the description search's answer to the response
get_products_description_return ==
    /\ pc = "GetProducts_description"
    /\ \E reply \in ProductReplies :
        LET r == GetProductsResult(reply)
        IN  /\ replies' = Append(replies, reply)
            /\ IF r.raised
               THEN Respond(HandleException(r.exc, ProductsError)) /\ UNCHANGED products
               ELSE /\ products' = r.value
                    /\ Respond(Response(200, ProductsBody(r.value)))
    /\ UNCHANGED <<endpoint, token, args, customer_id, seen>>

---------------------------------------------------------------------------
\* (variant) `and` for `or`: one parameter is enough
MissingUrlParameterBoth(store_name, product_handle) ==
    ~Truthy(store_name) /\ ~Truthy(product_handle)

\* GET /shopify/get-product-url
MissingUrlParameter(store_name, product_handle) ==
    ~Truthy(store_name) \/ ~Truthy(product_handle)

ProductUrlResponse(store_name, product_handle) ==
    IF MissingUrlParameter(store_name, product_handle)
    THEN Response(400, Str("error", <<"Missing store_name or product_handle">>))
    ELSE Response(200, Str("product_url",
             <<"https://", Fmt(store_name), ".myshopify.com/products/", Fmt(product_handle)>>))

\* the header is not read; the exchange is either remembered in seen or not
get_product_url ==
    \E tok \in Tokens, s \in StoreNames, h \in ProductHandles :
        LET a == [NoArgs EXCEPT !.store_name = s, !.product_handle = h]
            r == ProductUrlResponse(s, h)
        IN  /\ Begin("get_product_url", tok, a)
            /\ Respond(r)
            /\ seen' \in {seen, [token |-> tok, store_name |-> s, product_handle |-> h,
                                response |-> r]}

---------------------------------------------------------------------------
Next ==
    \/ health_check
    \/ shopify_order_by_number
    \/ shopify_order_by_number_return
    \/ shopify_order_by_confirmation_number_and_email
    \/ customer_id_return
    \/ orders_for_customer_id_return
    \/ get_shopify_products
    \/ get_products_return
    \/ get_products_description_return
    \/ get_product_url
    \/ teardown_request

Spec == Init /\ [][Next]_vars

---------------------------------------------------------------------------
\* Vocabulary of the properties.
ProtectedEndpoints ==
    {"order_by_number", "order_by_confirmation_number_and_email", "products"}
Done == pc = "done"
ValidCredential == Truthy(token)
Failed(reply) == reply.kind \in ErrorKinds
Range(f) == {f[i] : i \in DOMAIN f}

\* C1: on the three protected endpoints a request without the
\* X-Shopify-Access-Token header is answered 400 and no outbound call is
\* made for it, whatever its query parameters.
C1_MissingTokenIs400 ==
    (endpoint \in ProtectedEndpoints /\ token = None)
        => /\ Done
           /\ response.status = 400
           /\ calls = <<>>

C1_Witness ==
    /\ Done
    /\ endpoint = "products"
    /\ token = None
    /\ args.product_name = "polo"
    /\ args.store_name = "acme"
    /\ response.status = 400
    /\ calls = <<>>

\* C2: a products request with product_id given (with or without
\* product_name) makes exactly one outbound call, the one filtered by
\* id:<product_id>, and none after it.
C2_OnlyIdSearch ==
    (endpoint = "products" /\ ValidCredential /\ args.product_id # None)
        => /\ Len(calls) = 1
           /\ calls[1].variables.query = <<"id:", args.product_id>>

\* C3: a products request with only product_name given answers with the title
\* search's list when it is not empty (one call); when it is empty exactly one
\* description search follows, whose result is the answer, or the string
\* "No products found." with status 200 when it is empty too.
C3_TitleThenDescription ==
    (/\ endpoint = "products" /\ ValidCredential
     /\ args.product_id = None /\ args.product_name # None
     /\ Len(replies) >= 1 /\ ~Failed(replies[1]))
        => IF replies[1].nodes # <<>>
           THEN /\ Done
                /\ Len(calls) = 1
                /\ response.status = 200
                /\ response.body.field = "products"
                /\ response.body.tag = "list"
                /\ response.body.list = replies[1].nodes
           ELSE /\ Len(calls) = 2
                /\ calls[2].variables.query = <<"description:*", args.product_name, "*">>
                /\ (Done /\ Len(replies) = 2 /\ ~Failed(replies[2]))
                     => /\ response.status = 200
                        /\ response.body.field = "products"
                        /\ IF replies[2].nodes = <<>>
                           THEN /\ response.body.tag = "str"
                                /\ response.body.str = <<"No products found.">>
                           ELSE /\ response.body.tag = "list"
                                /\ response.body.list = replies[2].nodes

\* C4: when the customer lookup succeeds and finds no customer for the email,
\* the answer is 400 with "Invalid Email. Customer not found with email
\* <email>" and the customer's-orders call is not made.
C4_CustomerNotFoundIs400 ==
    (/\ endpoint = "order_by_confirmation_number_and_email" /\ ValidCredential
     /\ Len(replies) >= 1 /\ ~Failed(replies[1]) /\ replies[1].nodes = <<>>)
        => /\ Done
           /\ response.status = 400
           /\ response.body.field = "Error"
           /\ response.body.tag = "str"
           /\ response.body.str =
                <<"Invalid Email. Customer not found with email ", args.email>>
           /\ Len(calls) = 1
           /\ calls[1].fn = "GetCustomerID"

C4_Witness ==
    /\ Done
    /\ endpoint = "order_by_confirmation_number_and_email"
    /\ args.confirmation_number = "C1"
    /\ args.email = "a@x.io"
    /\ Len(replies) = 1 /\ replies[1].kind = "ok" /\ replies[1].nodes = <<>>
    /\ response.status = 400

C6_FirstOrderOrNotFound ==
    (/\ endpoint = "order_by_number" /\ ValidCredential /\ args.order_number # None
     /\ Done /\ Len(replies) = 1 /\ ~Failed(replies[1]))
        => /\ response.status = 200
           /\ response.body.field = "order"
           /\ IF replies[1].nodes # <<>>
              THEN /\ response.body.tag = "obj"
                   /\ response.body.obj = Head(replies[1].nodes)
              ELSE /\ response.body.tag = "str"
                   /\ response.body.str =
                        <<"No orders with order number ", args.order_number, " found.">>
           /\ Len(calls) = 1
           /\ calls[1].variables.query = <<"name:", args.order_number>>

C6_Witness ==
    /\ Done
    /\ endpoint = "order_by_number"
    /\ args.order_number = "1001"
    /\ Len(replies) = 1 /\ replies[1].kind = "ok" /\ Len(replies[1].nodes) = 2
    /\ replies[1].nodes[1] # replies[1].nodes[2]
    /\ response.status = 200
    /\ response.body.obj = replies[1].nodes[1]

\* C7: on a protected endpoint, when an outbound call failed (transport,
\* non-2xx status, body that does not parse or unwrap) the answer is 500 with
\* the generic error body of the endpoint, without the exception's text, and
\* never 400.
C7_UpstreamFailureIs500 ==
    (/\ endpoint \in ProtectedEndpoints /\ Done
     /\ \E i \in DOMAIN replies : Failed(replies[i]))
        => /\ response.status = 500
           /\ response.body.field = "error"
           /\ response.body.tag = "str"
           /\ response.body.str =
                IF endpoint = "products"
                THEN <<"An error occurred while retrieving products.">>
                ELSE <<"An error occurred while retrieving orders.">>
           /\ \A k \in ErrorKinds : CauseText(k) \notin Range(response.body.str)

C7_Witness ==
    /\ Done
    /\ endpoint = "products"
    /\ Len(replies) = 2
    /\ replies[1].kind = "ok"
    /\ replies[2].kind = "JSONDecodeError"
    /\ response.status = 500

ZeroOrders ==
    \/ /\ endpoint = "order_by_number"
       /\ Len(replies) = 1 /\ ~Failed(replies[1]) /\ replies[1].nodes = <<>>
    \/ /\ endpoint = "order_by_confirmation_number_and_email"
       /\ Len(replies) = 2 /\ ~Failed(replies[2])
       /\ \A i \in DOMAIN replies[2].nodes :
            replies[2].nodes[i].confirmationNumber # args.confirmation_number
ZeroCustomers ==
    /\ endpoint = "order_by_confirmation_number_and_email"
    /\ Len(replies) = 1 /\ ~Failed(replies[1]) /\ replies[1].nodes = <<>>
ZeroProducts ==
    /\ endpoint = "products"
    /\ Len(replies) >= 1
    /\ \A i \in DOMAIN replies : ~Failed(replies[i])
    /\ replies[Len(replies)].nodes = <<>>
Placeholder(field) ==
    /\ response.status = 200
    /\ response.body.field = field
    /\ response.body.tag = "str"
    /\ response.body.str # <<>>

\* C9 as stated: zero matching orders, products or customers are all answered
\* 200 with a placeholder string.
C9_NotFoundIsAlways200 ==
    (Done /\ (ZeroOrders \/ ZeroCustomers \/ ZeroProducts))
        => /\ response.status = 200
           /\ response.body.tag = "str"
           /\ response.body.field \in {"order", "products"}

\* C9 (amended): zero matching orders or products are answered 200 with a
\* placeholder string in `order` / `products`; zero matching customers are
\* answered 400 with the customer-not-found message.
C9_NotFoundOrdersProducts200 ==
    Done => /\ ZeroOrders => Placeholder("order")
            /\ ZeroProducts => /\ Placeholder("products")
                               /\ response.body.str = <<"No products found.">>
            /\ ZeroCustomers => /\ response.status = 400
                                /\ response.body.field = "Error"
                                /\ response.body.tag = "str"

C9_Witness ==
    /\ Done
    /\ endpoint = "products"
    /\ args.product_name = "polo"
    /\ Len(replies) = 2
    /\ replies[1].kind = "ok" /\ replies[2].kind = "ok"
    /\ ZeroProducts
    /\ response.status = 200

\* C10: get-product-url makes no outbound call and reads no credential; it
\* answers 400 when store_name or product_handle is missing or empty and
\* otherwise 200 with https://{store_name}.myshopify.com/products/{product_handle};
\* an earlier request with the same two parameters got the same answer.
C10_ProductUrl ==
    (endpoint = "get_product_url" /\ Done)
        => /\ calls = <<>>
           /\ IF args.store_name \in {None, ""} \/ args.product_handle \in {None, ""}
              THEN response.status = 400
              ELSE /\ response.status = 200
                   /\ response.body.field = "product_url"
                   /\ response.body.tag = "str"
                   /\ response.body.str =
                        <<"https://", args.store_name, ".myshopify.com/products/",
                          args.product_handle>>
           /\ (/\ seen # NoSeen
               /\ seen.store_name = args.store_name
               /\ seen.product_handle = args.product_handle)
                => seen.response = response

C10_Witness ==
    /\ Done
    /\ endpoint = "get_product_url"
    /\ token = None
    /\ seen.token = "shpat_1"
    /\ seen.store_name = "acme" /\ args.store_name = "acme"
    /\ seen.product_handle = "hat" /\ args.product_handle = "hat"
    /\ response.status = 200

\* C11: every outbound call is made with a store_name that was supplied and
\* is not empty; a request without store_name makes no outbound call.
C11_StoreNameNeverEmpty ==
    (endpoint \in ProtectedEndpoints /\ calls # <<>>)
        => /\ Truthy(args.store_name)
           /\ \A i \in DOMAIN calls : calls[i].url[2] = args.store_name

\* C12: on order-by-confirmation-number-and-email with a valid credential, a
\* non-empty email and no confirmation_number, the customer lookup is made,
\* and once the customer is found and the orders call has succeeded the
\* answer is 200 with the not-found string in `order`, never an order object.
C12_AbsentConfirmationNumber ==
    (/\ endpoint = "order_by_confirmation_number_and_email" /\ ValidCredential
     /\ Truthy(args.email) /\ args.confirmation_number = None)
        => /\ Len(calls) >= 1
           /\ calls[1].fn = "GetCustomerID"
           /\ calls[1].variables.query = <<"email:", args.email>>
           /\ (Done /\ Len(replies) = 2 /\ ~Failed(replies[2]))
                => /\ response.status = 200
                   /\ response.body.field = "order"
                   /\ response.body.tag = "str"
                   /\ response.body.str =
                        <<"No orders for ", args.email, " with confirmation number ",
                          "None", " found.">>

\* C13: the outbound calls of a request are sequential and at most two; the
\* second is made only after the first was answered without failure, it is
\* not a repetition of the first, and after a failed call no further call is
\* made: the request is answered with that failure.
C13_AtMostTwoCallsNoRetry ==
    /\ Len(calls) <= 2
    /\ Len(replies) <= Len(calls)
    /\ Len(calls) <= Len(replies) + 1
    /\ (pc \notin {"idle", "done"}) <=> (Len(calls) = Len(replies) + 1)
    /\ Len(calls) = 2 =>
         /\ Len(replies) >= 1 /\ ~Failed(replies[1])
         /\ calls[1].fn # calls[2].fn
              \/ calls[1].variables.query # calls[2].variables.query
    /\ \A i \in DOMAIN replies :
         Failed(replies[i]) => /\ Len(calls) = i
                               /\ Done
                               /\ response.status = 500

C13_Witness ==
    /\ Done
    /\ endpoint = "order_by_confirmation_number_and_email"
    /\ Len(calls) = 2
    /\ Len(replies) = 2
    /\ replies[1].kind = "ok"
    /\ replies[2].kind = "HTTPError"
    /\ response.status = 500

====
